---- MODULE Spec2Model ----
(***************************************************************************)
(* Model of vespalib::net::tls::impl::OpenSslCryptoCodecImpl, the          *)
(* non-blocking TLS record codec (handshake / encode / decode), with two   *)
(* codec instances (a Client and a Server) whose callers move the bytes    *)
(* each call reports between them.                                         *)
(*                                                                         *)
(* The OpenSSL engine behind the codec is abstracted to a record layer:    *)
(* a record is <<type, length>> followed by `length` payload bytes; the    *)
(* handshake is three header-only records (client hello, server flight,    *)
(* client finished); application payload bytes are the plaintext bytes     *)
(* shifted by a key.  A fatal engine error is permanent.                   *)
(***************************************************************************)
EXTENDS Integers, Sequences, FiniteSets, TLC

\* ------------------------------------------------------------------------
\* Bounds
\* ------------------------------------------------------------------------
MaximumFramePlaintextSize == 2
MaxPlaintext == 6

\* SimpleSparseMap: dimensions of an address, distinct labels, labels the
\* map stores in all, and the width of a hash (hash_t is 64 bits wide in the
\* source).
MaxDims == 2
MaxLabel == 3
MaxStoredLabels == 6
HashBits == 3

\* ------------------------------------------------------------------------
\* Sequence helpers
\* ------------------------------------------------------------------------
Min(a, b) == IF a < b THEN a ELSE b

Max(a, b) == IF a > b THEN a ELSE b

Take(s, n) == SubSeq(s, 1, Min(n, Len(s)))

Drop(s, n) == SubSeq(s, Max(0, Min(n, Len(s))) + 1, Len(s))

Iota(n) == [i \in 1..n |-> i]

\* The element of a one-element set: used to name an intermediate result.
The(S) == CHOOSE x \in S : TRUE

\* ------------------------------------------------------------------------
\* Abstract wire format of the engine
\* ------------------------------------------------------------------------
Wire ==
    [header_len      |-> 2,
     key             |-> 50,
     client_hello    |-> 101,
     server_flight   |-> 102,
     client_finished |-> 103,
     application     |-> 104,
     alert           |-> 105,
     garbage         |-> 255]

Encrypt(plain) == [i \in 1..Len(plain) |-> plain[i] + Wire.key]

Decrypt(cipher) == [i \in 1..Len(cipher) |-> cipher[i] - Wire.key]

IsCipherByte(b) == b > Wire.key /\ b < Wire.client_hello

HandshakeRecord(type) == <<type, 0>>

ApplicationRecord(plain) == <<Wire.application, Len(plain)>> \o Encrypt(plain)

\* Smallest output buffer a caller may pass: room for one maximal record.
min_encode_buffer_size == Wire.header_len + MaximumFramePlaintextSize

\* Smallest plaintext buffer a caller may pass to decode.
min_decode_buffer_size == MaximumFramePlaintextSize

\* ------------------------------------------------------------------------
\* Buffer views (direct_buffer_bio): the codec's two long-lived BIO slots
\* ------------------------------------------------------------------------
EmptyConstView == [buf |-> <<>>, pos |-> 0, set |-> FALSE]

EmptyMutableView == [size |-> 0, data |-> <<>>, set |-> FALSE]

\* ConstBufferViewGuard constructor: the input slot aliases `buf`.
ConstBufferViewGuard(buf) == [buf |-> buf, pos |-> 0, set |-> TRUE]

\* MutableBufferViewGuard constructor: the output slot aliases a buffer of
\* `size` bytes, nothing written yet.
MutableBufferViewGuard(size) == [size |-> size, data |-> <<>>, set |-> TRUE]

\* Guard destructors: the slot goes back to the empty region.
ConstBufferViewGuardRelease(view) == EmptyConstView

MutableBufferViewGuardRelease(view) == EmptyMutableView

\* BIO_pending on the input slot: bytes of the view not yet read.
BIO_pending_input(bio) == Len(bio.buf) - bio.pos

\* BIO_pending on the output slot: bytes written into the view.
BIO_pending_output(bio) == Len(bio.data)

BIO_can_write(bio, bytes) == bio.set /\ Len(bio.data) + Len(bytes) <= bio.size

BIO_write(bio, bytes) == [bio EXCEPT !.data = @ \o bytes]

\* ------------------------------------------------------------------------
\* Codec instance and engine state
\* ------------------------------------------------------------------------
Modes == {"Client", "Server"}

Peer(mode) == IF mode = "Client" THEN "Server" ELSE "Client"

\* Constructor: SSL_new, two BIOs with no view, connect or accept state.
OpenSslCryptoCodecImpl(mode) ==
    [ssl        |-> [mode  |-> mode,
                     state |-> "before",
                     error |-> FALSE,
                     rbuf  |-> <<>>],
     input_bio  |-> EmptyConstView,
     output_bio |-> EmptyMutableView]

\* A fatal error puts the engine's state machine back "in init", so the
\* handshake no longer counts as finished.
SSL_is_init_finished(ssl) == ssl.state = "ok" /\ ~ssl.error

\* How long the record the engine is reading is, as far as the bytes it has
\* tell: the header first, then header plus the length the header states (a
\* length above the maximum is rejected on the header alone).
WantedBytes(r) ==
    IF Len(r) < Wire.header_len THEN Wire.header_len
    ELSE IF r[2] > MaximumFramePlaintextSize THEN Wire.header_len
    ELSE Wire.header_len + r[2]

RecordComplete(r) == Len(r) >= Wire.header_len /\ Len(r) = WantedBytes(r)

\* One read from the input BIO: as many of the wanted bytes as are there.
Fill(r, avail) == r \o Take(avail, WantedBytes(r) - Len(r))

FillBody(r0, avail, r1) == Fill(r1, Drop(avail, Len(r1) - Len(r0)))

AfterRead(c, r) ==
    [c        |-> [c EXCEPT !.input_bio.pos = @ + Len(r) - Len(c.ssl.rbuf),
                            !.ssl.rbuf = IF RecordComplete(r) THEN <<>> ELSE r],
     complete |-> RecordComplete(r),
     rec      |-> r]

\* The engine pulls the bytes of one record from the input BIO into its own
\* read buffer: first the header, then as much of the body as is there.
ReadRecord(c) ==
    The({AfterRead(c, r) :
            r \in {FillBody(c.ssl.rbuf,
                            Drop(c.input_bio.buf, c.input_bio.pos),
                            Fill(c.ssl.rbuf, Drop(c.input_bio.buf, c.input_bio.pos)))}})

\* A fatal protocol error: the engine is unusable from here on and queues an
\* alert record when the output view has room for it.
Fatal(c) ==
    [c EXCEPT !.ssl.error = TRUE,
              !.ssl.rbuf = <<>>,
              !.output_bio = IF BIO_can_write(@, HandshakeRecord(Wire.alert))
                             THEN BIO_write(@, HandshakeRecord(Wire.alert)) ELSE @]

\* The record the handshake waits for in each reading state.
ExpectedRecord(ssl) ==
    IF ssl.state = "before" THEN HandshakeRecord(Wire.client_hello)
    ELSE IF ssl.state = "wait_server_flight" THEN HandshakeRecord(Wire.server_flight)
    ELSE HandshakeRecord(Wire.client_finished)

\* What a handshake state writes when it moves on, and the state it enters.
HandshakeReply(ssl) ==
    IF ssl.state = "before" /\ ssl.mode = "Client"
    THEN [out |-> HandshakeRecord(Wire.client_hello), next |-> "wait_server_flight"]
    ELSE IF ssl.state = "before"
    THEN [out |-> HandshakeRecord(Wire.server_flight), next |-> "wait_client_finished"]
    ELSE IF ssl.state = "wait_server_flight"
    THEN [out |-> HandshakeRecord(Wire.client_finished), next |-> "ok"]
    ELSE [out |-> <<>>, next |-> "ok"]

RECURSIVE SSL_do_handshake(_)

\* The handshake moves to its next state, writing that state's message.
HandshakeSend(c, reply) ==
    IF ~BIO_can_write(c.output_bio, reply.out)
    THEN [c |-> c, ssl_error |-> "SSL_ERROR_SYSCALL"]
    ELSE SSL_do_handshake([c EXCEPT !.ssl.state = reply.next,
                                    !.output_bio = BIO_write(@, reply.out)])

\* The handshake has tried to read the message it waits for.
HandshakeReceive(c, rd) ==
    IF ~rd.complete THEN [c |-> rd.c, ssl_error |-> "SSL_ERROR_WANT_READ"]
    ELSE IF rd.rec # ExpectedRecord(c.ssl)
    THEN [c |-> Fatal(rd.c), ssl_error |-> "SSL_ERROR_SSL"]
    ELSE HandshakeSend(rd.c, HandshakeReply(c.ssl))

\* SSL_do_handshake followed by SSL_get_error: advance until the handshake
\* is finished, more peer data is needed, or an error occurs.
SSL_do_handshake(c) ==
    IF c.ssl.error THEN [c |-> c, ssl_error |-> "SSL_ERROR_SSL"]
    ELSE IF SSL_is_init_finished(c.ssl) THEN [c |-> c, ssl_error |-> "SSL_ERROR_NONE"]
    ELSE IF c.ssl.state = "before" /\ c.ssl.mode = "Client"
    THEN HandshakeSend(c, HandshakeReply(c.ssl))
    ELSE The({HandshakeReceive(c, rd) : rd \in {ReadRecord(c)}})

\* SSL_write: one application record with the whole span, or an error.
SSL_write(c, plain) ==
    IF ~SSL_is_init_finished(c.ssl)
       \/ ~BIO_can_write(c.output_bio, ApplicationRecord(plain))
    THEN [c |-> c, ret |-> -1, calls |-> 1]
    ELSE [c |-> [c EXCEPT !.output_bio = BIO_write(@, ApplicationRecord(plain))],
          ret |-> Len(plain), calls |-> 1]

IsApplicationRecord(rec) ==
    /\ Len(rec) > Wire.header_len
    /\ rec[1] = Wire.application
    /\ \A i \in (Wire.header_len + 1)..Len(rec) : IsCipherByte(rec[i])

\* The engine has tried to read a record for SSL_read.
ReadOutcome(rd) ==
    IF ~rd.complete
    THEN [c |-> rd.c, ret |-> -1, ssl_error |-> "SSL_ERROR_WANT_READ", plain |-> <<>>]
    ELSE IF IsApplicationRecord(rd.rec)
    THEN [c |-> rd.c, ret |-> Len(rd.rec) - Wire.header_len,
          ssl_error |-> "SSL_ERROR_NONE",
          plain |-> Decrypt(Drop(rd.rec, Wire.header_len))]
    ELSE [c |-> Fatal(rd.c), ret |-> -1, ssl_error |-> "SSL_ERROR_SSL", plain |-> <<>>]

\* SSL_read: read one record and hand its plaintext out.  Handshake records
\* after the handshake (a renegotiation attempt) and damaged records are
\* fatal.  Callers pass a plaintext buffer of at least
\* min_decode_buffer_size bytes, so a record's plaintext always fits.
SSL_read(c, size) ==
    IF ~SSL_is_init_finished(c.ssl) \/ size <= 0
    THEN [c |-> c, ret |-> -1, ssl_error |-> "SSL_ERROR_SSL", plain |-> <<>>]
    ELSE The({ReadOutcome(rd) : rd \in {ReadRecord(c)}})

\* ------------------------------------------------------------------------
\* Result values
\* ------------------------------------------------------------------------
handshake_consumed_bytes_and_needs_more_peer_data(consumed) ==
    [bytes_consumed |-> consumed, bytes_produced |-> 0, state |-> "NeedsMorePeerData"]

handshake_consumed_bytes_and_is_complete(consumed) ==
    [bytes_consumed |-> consumed, bytes_produced |-> 0, state |-> "Done"]

handshaked_bytes(consumed, produced, state) ==
    [bytes_consumed |-> consumed, bytes_produced |-> produced, state |-> state]

handshake_completed == [bytes_consumed |-> 0, bytes_produced |-> 0, state |-> "Done"]

handshake_failed == [bytes_consumed |-> 0, bytes_produced |-> 0, state |-> "Failed"]

encode_failed == [bytes_consumed |-> 0, bytes_produced |-> 0, failed |-> TRUE]

encoded_bytes(consumed, produced) ==
    [bytes_consumed |-> consumed, bytes_produced |-> produced, failed |-> FALSE]

decode_failed == [bytes_consumed |-> 0, bytes_produced |-> 0, state |-> "Failed"]

decoded_frames_with_plaintext_bytes(produced_bytes) ==
    [bytes_consumed |-> 0, bytes_produced |-> produced_bytes, state |-> "OK"]

decode_needs_more_peer_data ==
    [bytes_consumed |-> 0, bytes_produced |-> 0, state |-> "NeedsMorePeerData"]

decoded_bytes(consumed, produced, state) ==
    [bytes_consumed |-> consumed, bytes_produced |-> produced, state |-> state]

\* ------------------------------------------------------------------------
\* The three operations.  Each yields the codec after the call (`c`), the
\* result value (`res`), and what the call did on the way: the two slots as
\* they were while the engine ran (`input_view`, `output_view`), how often an
\* engine primitive was invoked (`engine_calls`), the result of the engine
\* step before the final result is built (`step_res`), the buffered input
\* size around the engine step, the engine's error code, and the bytes the
\* call left in the caller's output buffer (`out`).
\* ------------------------------------------------------------------------

\* An early return: no view is attached and no engine primitive runs.
NoEngineStep(c, res) ==
    [c |-> c, res |-> res, step_res |-> res,
     input_view |-> c.input_bio, output_view |-> c.output_bio,
     engine_calls |-> 0, pending_before |-> 0, pending_after |-> 0,
     ssl_error |-> "none", out |-> <<>>]

\* Scope exit of a call that held a ConstBufferViewGuard.
ReleaseInput(r) == [r EXCEPT !.c.input_bio = ConstBufferViewGuardRelease(@)]

\* Scope exit of a call that held a MutableBufferViewGuard.
ReleaseOutput(r) == [r EXCEPT !.c.output_bio = MutableBufferViewGuardRelease(@)]

\* Variant: a step that ended without a fatal error counts as the end of
\* the handshake, whether or not the engine wants more peer data.
consume_peer_input_bytes_want_read_done(pending_read_before, step) ==
    LET consumed == pending_read_before - BIO_pending_input(step.c.input_bio)
    IN  [c   |-> step.c,
         res |-> IF step.ssl_error \in {"SSL_ERROR_WANT_READ", "SSL_ERROR_NONE"}
                 THEN handshake_consumed_bytes_and_is_complete(consumed)
                 ELSE handshake_failed,
         pending_before |-> pending_read_before,
         pending_after  |-> BIO_pending_input(step.c.input_bio),
         ssl_error      |-> step.ssl_error]

\* Variant: no error from the engine step is taken for the end of the
\* handshake, without asking the engine.
consume_peer_input_bytes_unchecked(pending_read_before, step) ==
    LET consumed == pending_read_before - BIO_pending_input(step.c.input_bio)
    IN  [c   |-> step.c,
         res |-> IF step.ssl_error = "SSL_ERROR_WANT_READ"
                 THEN handshake_consumed_bytes_and_needs_more_peer_data(consumed)
                 ELSE IF step.ssl_error = "SSL_ERROR_NONE"
                 THEN handshake_consumed_bytes_and_is_complete(consumed)
                 ELSE handshake_failed,
         pending_before |-> pending_read_before,
         pending_after  |-> BIO_pending_input(step.c.input_bio),
         ssl_error      |-> step.ssl_error]

\* Variant: the consumed count is taken the wrong way round.
consume_peer_input_bytes_reversed(pending_read_before, step) ==
    LET consumed == BIO_pending_input(step.c.input_bio) - pending_read_before
    IN  [c   |-> step.c,
         res |-> IF step.ssl_error = "SSL_ERROR_WANT_READ"
                 THEN handshake_consumed_bytes_and_needs_more_peer_data(consumed)
                 ELSE IF step.ssl_error = "SSL_ERROR_NONE"
                 THEN IF ~SSL_is_init_finished(step.c.ssl)
                      THEN handshake_failed
                      ELSE handshake_consumed_bytes_and_is_complete(consumed)
                 ELSE handshake_failed,
         pending_before |-> pending_read_before,
         pending_after  |-> BIO_pending_input(step.c.input_bio),
         ssl_error      |-> step.ssl_error]

\* The branches of do_handshake_and_consume_peer_input_bytes after the engine
\* step.
consume_peer_input_bytes(pending_read_before, step) ==
    LET consumed == pending_read_before - BIO_pending_input(step.c.input_bio)
    IN  [c   |-> step.c,
         res |-> IF step.ssl_error = "SSL_ERROR_WANT_READ"
                 THEN handshake_consumed_bytes_and_needs_more_peer_data(consumed)
                 ELSE IF step.ssl_error = "SSL_ERROR_NONE"
                 THEN IF ~SSL_is_init_finished(step.c.ssl)
                      THEN handshake_failed
                      ELSE handshake_consumed_bytes_and_is_complete(consumed)
                 ELSE handshake_failed,
         pending_before |-> pending_read_before,
         pending_after  |-> BIO_pending_input(step.c.input_bio),
         ssl_error      |-> step.ssl_error]

do_handshake_and_consume_peer_input_bytes(c) ==
    The({consume_peer_input_bytes(BIO_pending_input(c.input_bio), step) :
            step \in {SSL_do_handshake(c)}})

\* Variant: the result of the consume step is returned as it is, without the
\* bytes the engine queued in the output view.
handshake_return_unreported(viewed, consume_res) ==
    [c   |-> consume_res.c,
     res |-> consume_res.res,
     step_res       |-> consume_res.res,
     input_view     |-> viewed.input_bio,
     output_view    |-> viewed.output_bio,
     engine_calls   |-> 1,
     pending_before |-> consume_res.pending_before,
     pending_after  |-> consume_res.pending_after,
     ssl_error      |-> consume_res.ssl_error,
     out            |-> consume_res.c.output_bio.data]

\* Variant: a completed consume step is returned as it is, like a failed
\* one.
handshake_return_done_bare(viewed, consume_res) ==
    [c   |-> consume_res.c,
     res |-> IF consume_res.res.state \in {"Failed", "Done"} THEN consume_res.res
             ELSE handshaked_bytes(consume_res.res.bytes_consumed,
                                   BIO_pending_output(consume_res.c.output_bio),
                                   consume_res.res.state),
     step_res       |-> consume_res.res,
     input_view     |-> viewed.input_bio,
     output_view    |-> viewed.output_bio,
     engine_calls   |-> 1,
     pending_before |-> consume_res.pending_before,
     pending_after  |-> consume_res.pending_after,
     ssl_error      |-> consume_res.ssl_error,
     out            |-> consume_res.c.output_bio.data]

\* handshake() from the consume step's result to its return statement.
\* Variant: a Failed consume step goes on to the final return, which reports
\* what is pending in the output view.
handshake_return_failed_through(viewed, consume_res) ==
    [c   |-> consume_res.c,
     res |-> handshaked_bytes(consume_res.res.bytes_consumed,
                              BIO_pending_output(consume_res.c.output_bio),
                              consume_res.res.state),
     step_res       |-> consume_res.res,
     input_view     |-> viewed.input_bio,
     output_view    |-> viewed.output_bio,
     engine_calls   |-> 1,
     pending_before |-> consume_res.pending_before,
     pending_after  |-> consume_res.pending_after,
     ssl_error      |-> consume_res.ssl_error,
     out            |-> consume_res.c.output_bio.data]

handshake_return(viewed, consume_res) ==
    [c   |-> consume_res.c,
     res |-> IF consume_res.res.state = "Failed" THEN consume_res.res
             ELSE handshaked_bytes(consume_res.res.bytes_consumed,
                                   BIO_pending_output(consume_res.c.output_bio),
                                   consume_res.res.state),
     step_res       |-> consume_res.res,
     input_view     |-> viewed.input_bio,
     output_view    |-> viewed.output_bio,
     engine_calls   |-> 1,
     pending_before |-> consume_res.pending_before,
     pending_after  |-> consume_res.pending_after,
     ssl_error      |-> consume_res.ssl_error,
     out            |-> consume_res.c.output_bio.data]

\* handshake() once both views are attached.
handshake_with_views(viewed) ==
    The({handshake_return(viewed, consume_res) :
            consume_res \in {do_handshake_and_consume_peer_input_bytes(viewed)}})

\* Variant: the "already finished" early return is missing.
handshake_unguarded(c, from_peer, to_peer_buf_size) ==
    ReleaseOutput(ReleaseInput(handshake_with_views(
        [c EXCEPT !.input_bio = ConstBufferViewGuard(from_peer),
                  !.output_bio = MutableBufferViewGuard(to_peer_buf_size)])))

\* Variant: the early return tests "the engine is no longer handshaking",
\* which is also the case after the engine has given up.
handshake_done_or_given_up(c, from_peer, to_peer_buf_size) ==
    IF SSL_is_init_finished(c.ssl) \/ c.ssl.error
    THEN NoEngineStep(c, handshake_completed)
    ELSE ReleaseOutput(ReleaseInput(handshake_with_views(
             [c EXCEPT !.input_bio = ConstBufferViewGuard(from_peer),
                       !.output_bio = MutableBufferViewGuard(to_peer_buf_size)])))

\* Variant: the early return tests that the handshake was completed once,
\* whatever has happened to the engine since.
handshake_once_done(c, from_peer, to_peer_buf_size) ==
    IF c.ssl.state = "ok" THEN NoEngineStep(c, handshake_completed)
    ELSE ReleaseOutput(ReleaseInput(handshake_with_views(
             [c EXCEPT !.input_bio = ConstBufferViewGuard(from_peer),
                       !.output_bio = MutableBufferViewGuard(to_peer_buf_size)])))

handshake(c, from_peer, to_peer_buf_size) ==
    IF SSL_is_init_finished(c.ssl) THEN NoEngineStep(c, handshake_completed)
    ELSE ReleaseOutput(ReleaseInput(handshake_with_views(
             [c EXCEPT !.input_bio = ConstBufferViewGuard(from_peer),
                       !.output_bio = MutableBufferViewGuard(to_peer_buf_size)])))

\* Variant: a successful encode reports the whole plaintext as consumed,
\* not the clamped span.
encode_result_unclamped(plaintext_size, to_consume, consumed, produced) ==
    IF plaintext_size # 0 /\ consumed < 0 THEN encode_failed
    ELSE IF plaintext_size # 0 /\ consumed # to_consume THEN encode_failed
    ELSE encoded_bytes(plaintext_size, produced)

\* Variant: a short write is reported as a success of the bytes written.
encode_result_partial(plaintext_size, to_consume, consumed, produced) ==
    IF plaintext_size # 0 /\ consumed < 0 THEN encode_failed
    ELSE encoded_bytes(consumed, produced)

\* The result of encode() from what SSL_write returned.
encode_result(plaintext_size, to_consume, consumed, produced) ==
    IF plaintext_size # 0 /\ consumed < 0 THEN encode_failed
    ELSE IF plaintext_size # 0 /\ consumed # to_consume THEN encode_failed
    ELSE encoded_bytes(consumed, produced)

\* encode() from the engine write to its return statement.
encode_return(viewed, plaintext, to_consume, wr) ==
    [c   |-> wr.c,
     res |-> encode_result(Len(plaintext), to_consume, wr.ret,
                           BIO_pending_output(wr.c.output_bio)),
     step_res       |-> encode_result(Len(plaintext), to_consume, wr.ret,
                                      BIO_pending_output(wr.c.output_bio)),
     input_view     |-> viewed.input_bio,
     output_view    |-> viewed.output_bio,
     engine_calls   |-> wr.calls,
     pending_before |-> BIO_pending_input(viewed.input_bio),
     pending_after  |-> BIO_pending_input(wr.c.input_bio),
     ssl_error      |-> IF wr.ret < 0 THEN "SSL_ERROR_SSL" ELSE "SSL_ERROR_NONE",
     out            |-> wr.c.output_bio.data]

\* Variant: the whole plaintext is handed to SSL_write, without the clamp to
\* the maximum frame size.
encode_with_view_unclamped(viewed, plaintext) ==
    The({encode_return(viewed, plaintext, Len(plaintext), wr) :
            wr \in {IF Len(plaintext) # 0
                    THEN SSL_write(viewed, plaintext)
                    ELSE [c |-> viewed, ret |-> 0, calls |-> 0]}})

\* Variant: the clamp stops one byte short of the frame ceiling.
encode_with_view_short(viewed, plaintext) ==
    The({encode_return(viewed, plaintext,
                       Min(Len(plaintext), MaximumFramePlaintextSize - 1), wr) :
            wr \in {IF Len(plaintext) # 0
                    THEN SSL_write(viewed,
                                   Take(plaintext,
                                        Min(Len(plaintext), MaximumFramePlaintextSize - 1)))
                    ELSE [c |-> viewed, ret |-> 0, calls |-> 0]}})

\* Variant: the engine write is made for an empty plaintext too.
encode_with_view_always(viewed, plaintext) ==
    The({encode_return(viewed, plaintext,
                       Min(Len(plaintext), MaximumFramePlaintextSize), wr) :
            wr \in {SSL_write(viewed,
                              Take(plaintext,
                                   Min(Len(plaintext), MaximumFramePlaintextSize)))}})

\* encode() once the output view is attached.
encode_with_view(viewed, plaintext) ==
    The({encode_return(viewed, plaintext,
                       Min(Len(plaintext), MaximumFramePlaintextSize), wr) :
            wr \in {IF Len(plaintext) # 0
                    THEN SSL_write(viewed,
                                   Take(plaintext,
                                        Min(Len(plaintext), MaximumFramePlaintextSize)))
                    ELSE [c |-> viewed, ret |-> 0, calls |-> 0]}})

\* Variant: the "handshake not completed" early return is missing.
encode_unguarded(c, plaintext, ciphertext_size) ==
    ReleaseOutput(encode_with_view(
        [c EXCEPT !.output_bio = MutableBufferViewGuard(ciphertext_size)],
        plaintext))

\* Variant: encode() attaches an input view over the plaintext too.
encode_both_views(c, plaintext, ciphertext_size) ==
    IF ~SSL_is_init_finished(c.ssl) THEN NoEngineStep(c, encode_failed)
    ELSE ReleaseInput(ReleaseOutput(encode_with_view(
             [c EXCEPT !.input_bio = ConstBufferViewGuard(plaintext),
                       !.output_bio = MutableBufferViewGuard(ciphertext_size)],
             plaintext)))

encode(c, plaintext, ciphertext_size) ==
    IF ~SSL_is_init_finished(c.ssl) THEN NoEngineStep(c, encode_failed)
    ELSE ReleaseOutput(encode_with_view(
             [c EXCEPT !.output_bio = MutableBufferViewGuard(ciphertext_size)],
             plaintext))

\* Variant: SSL_ERROR_WANT_READ is not told apart from the other errors.
produce_plaintext_no_want_read(rd) ==
    [c   |-> rd.c,
     res |-> IF rd.ret > 0 THEN decoded_frames_with_plaintext_bytes(rd.ret)
             ELSE decode_failed,
     ssl_error |-> rd.ssl_error,
     plain     |-> rd.plain]

\* The branches of drain_and_produce_plaintext_from_ssl after SSL_read.
produce_plaintext(rd) ==
    [c   |-> rd.c,
     res |-> IF rd.ret > 0 THEN decoded_frames_with_plaintext_bytes(rd.ret)
             ELSE IF rd.ssl_error = "SSL_ERROR_WANT_READ"
             THEN decode_needs_more_peer_data
             ELSE decode_failed,
     ssl_error |-> rd.ssl_error,
     plain     |-> rd.plain]

\* Two reads put together: the second one's engine, the plaintext of both.
ReadAgain(first, second) ==
    IF first.res.state # "OK" \/ second.res.state # "OK" THEN first
    ELSE [c   |-> second.c,
          res |-> decoded_frames_with_plaintext_bytes(
                      first.res.bytes_produced + second.res.bytes_produced),
          ssl_error |-> second.ssl_error,
          plain     |-> first.plain \o second.plain]

\* Variant: after a successful read the engine is read once more, draining
\* a second record from the input.
drain_and_read_again(c, plaintext_size) ==
    The({ReadAgain(first, The({produce_plaintext(rd) :
                                  rd \in {SSL_read(first.c, plaintext_size)}})) :
            first \in {The({produce_plaintext(rd) : rd \in {SSL_read(c, plaintext_size)}})}})

drain_and_produce_plaintext_from_ssl(c, plaintext_size) ==
    The({produce_plaintext(rd) : rd \in {SSL_read(c, plaintext_size)}})

\* Variant: the consumed and produced counts change places in the result.
decode_return_swapped(viewed, input_pending_before, produce_res) ==
    LET input_pending_after == BIO_pending_input(produce_res.c.input_bio)
        consumed            == input_pending_before - input_pending_after
    IN  [c   |-> produce_res.c,
         res |-> decoded_bytes(produce_res.res.bytes_produced, consumed,
                               produce_res.res.state),
         step_res       |-> produce_res.res,
         input_view     |-> viewed.input_bio,
         output_view    |-> viewed.output_bio,
         engine_calls   |-> 1,
         pending_before |-> input_pending_before,
         pending_after  |-> input_pending_after,
         ssl_error      |-> produce_res.ssl_error,
         out            |-> produce_res.plain]

\* Variant: a Failed decode reports no consumed bytes.
decode_return_failed_bare(viewed, input_pending_before, produce_res) ==
    LET input_pending_after == BIO_pending_input(produce_res.c.input_bio)
        consumed            == IF produce_res.res.state = "Failed" THEN 0
                               ELSE input_pending_before - input_pending_after
    IN  [c   |-> produce_res.c,
         res |-> decoded_bytes(consumed, produce_res.res.bytes_produced,
                               produce_res.res.state),
         step_res       |-> produce_res.res,
         input_view     |-> viewed.input_bio,
         output_view    |-> viewed.output_bio,
         engine_calls   |-> 1,
         pending_before |-> input_pending_before,
         pending_after  |-> input_pending_after,
         ssl_error      |-> produce_res.ssl_error,
         out            |-> produce_res.plain]

\* decode() from the drain step's result to its return statement.
decode_return(viewed, input_pending_before, produce_res) ==
    LET input_pending_after == BIO_pending_input(produce_res.c.input_bio)
        consumed            == input_pending_before - input_pending_after
    IN  [c   |-> produce_res.c,
         res |-> decoded_bytes(consumed, produce_res.res.bytes_produced,
                               produce_res.res.state),
         step_res       |-> produce_res.res,
         input_view     |-> viewed.input_bio,
         output_view    |-> viewed.output_bio,
         engine_calls   |-> 1,
         pending_before |-> input_pending_before,
         pending_after  |-> input_pending_after,
         ssl_error      |-> produce_res.ssl_error,
         out            |-> produce_res.plain]

\* decode() once the input view is attached.
decode_with_view(viewed, plaintext_size) ==
    The({decode_return(viewed, BIO_pending_input(viewed.input_bio), produce_res) :
            produce_res \in {drain_and_produce_plaintext_from_ssl(viewed, plaintext_size)}})

\* What a Failed decode would leave behind if the input view were torn down
\* by hand before the final return only.
KeepInputOnFailure(r) == IF r.res.state = "Failed" THEN r ELSE ReleaseInput(r)

\* Variant: a Failed decode leaves the slot aliasing the caller's buffer.
decode_leaky(c, ciphertext, plaintext_size) ==
    IF ~SSL_is_init_finished(c.ssl) THEN NoEngineStep(c, decode_failed)
    ELSE KeepInputOnFailure(decode_with_view(
             [c EXCEPT !.input_bio = ConstBufferViewGuard(ciphertext)],
             plaintext_size))

\* Variant: decode() attaches an output view over the plaintext buffer too.
decode_both_views(c, ciphertext, plaintext_size) ==
    IF ~SSL_is_init_finished(c.ssl) THEN NoEngineStep(c, decode_failed)
    ELSE ReleaseOutput(ReleaseInput(decode_with_view(
             [c EXCEPT !.input_bio = ConstBufferViewGuard(ciphertext),
                       !.output_bio = MutableBufferViewGuard(plaintext_size)],
             plaintext_size)))

decode(c, ciphertext, plaintext_size) ==
    IF ~SSL_is_init_finished(c.ssl) THEN NoEngineStep(c, decode_failed)
    ELSE ReleaseInput(decode_with_view(
             [c EXCEPT !.input_bio = ConstBufferViewGuard(ciphertext)],
             plaintext_size))

\* ------------------------------------------------------------------------
\* vespalib::eval::SimpleSparseMap
\* ------------------------------------------------------------------------
Labels == 1..MaxLabel

\* hash_t arithmetic wraps at the width of the type.
HashSpace == 2 ^ HashBits

\* The label hash (XXH3), abstracted to a fixed function onto the hash space.
XXH3_64bits(str) == (7 * str + 3) % HashSpace

HashedLabel(str) == [label |-> str, hash |-> XXH3_64bits(str)]

hash_label(label) == label.hash

\* h = 31 * h + hash_label(label), over the labels of the address in order.
RECURSIVE hash_labels(_, _)
\* The loop of hash_addr after n labels.
hash_labels(addr, n) ==
    IF n = 0 THEN 0
    ELSE (31 * hash_labels(addr, n - 1) + hash_label(HashedLabel(addr[n]))) % HashSpace

hash_addr(addr) == hash_labels(addr, Len(addr))

\* Constructor: no labels, no entries.
SimpleSparseMap(num_dims_in, expected_subspaces) ==
    [num_dims |-> num_dims_in, labels |-> <<>>, map |-> {}]

\* The hash map holds one entry per key, and keys are equal when their
\* hashes are (Equal): inserting a key that is there changes nothing.
hash_map_insert(map, key, value) ==
    IF \E e \in map : e.hash = key.hash THEN map
    ELSE map \cup {[start |-> key.start, hash |-> key.hash, value |-> value]}

hash_map_find(map, hash) == {e \in map : e.hash = hash}

size(m) == Cardinality(m.map)

npos == -1

\* add_mapping(addr, hash): the caller brings the hash of the address.
add_mapping_with_hash(m, addr, hash) ==
    [m EXCEPT !.labels = @ \o [i \in 1..Len(addr) |-> HashedLabel(addr[i])],
              !.map = hash_map_insert(@, [start |-> Len(m.labels), hash |-> hash],
                                      Cardinality(m.map))]

\* Variant: the value is read after the insert.
add_mapping_post_insert(m, addr) ==
    [m EXCEPT !.labels = @ \o [i \in 1..Len(addr) |-> HashedLabel(addr[i])],
              !.map = hash_map_insert(@, [start |-> Len(m.labels),
                                          hash |-> hash_addr(addr)],
                                      Cardinality(m.map) + 1)]

\* add_mapping(addr): the hash is computed while the labels are stored.
add_mapping(m, addr) ==
    [m EXCEPT !.labels = @ \o [i \in 1..Len(addr) |-> HashedLabel(addr[i])],
              !.map = hash_map_insert(@, [start |-> Len(m.labels),
                                          hash |-> hash_addr(addr)],
                                      Cardinality(m.map))]

lookup_hash(m, hash) ==
    The({IF pos = {} THEN npos ELSE The(pos).value :
            pos \in {hash_map_find(m.map, hash)}})

lookup(m, addr) == The({lookup_hash(m, hash) : hash \in {hash_addr(addr)}})

\* ------------------------------------------------------------------------
\* State: the two codec instances and their callers' transport loop
\* ------------------------------------------------------------------------
VARIABLES
    codec,      \* codec[m]: the codec instance of mode m
    net,        \* net[m]: wire bytes on their way to m, not yet consumed by it
    tosend,     \* tosend[m]: plaintext the caller of m still has to encode
    sent,       \* sent[m]: plaintext the encode calls of m reported consumed
    rcvd,       \* rcvd[m]: plaintext the decode calls of m reported produced
    tampered,   \* whether bytes were injected into the wire
    last,       \* the most recent call: operation, arguments, result, trace
    hist,       \* hist[m]: which handshake results m has returned so far
    sparse_map, \* a SimpleSparseMap instance
    added       \* the addresses given to add_mapping, in order

vars == <<codec, net, tosend, sent, rcvd, tampered, last, hist, sparse_map, added>>

codec_vars == <<codec, net, tosend, sent, rcvd, tampered, last, hist>>

map_vars == <<sparse_map, added>>

\* The plaintext the Client's caller has to send; it may pass any prefix of
\* what is left to one encode call.
Plaintext == Iota(MaxPlaintext)

\* Lengths of the spans the caller passes to encode: nothing, one byte,
\* everything it has left.
EncodeSpans(left) == {k \in 0..Len(left) : k <= 1 \/ k = Len(left)}

\* Lengths of the wire spans the caller passes to handshake and decode:
\* nothing, up to one byte more than a maximal record, everything waiting.
PeerSpans(waiting) ==
    {n \in 0..Len(waiting) : n <= min_encode_buffer_size + 1 \/ n = Len(waiting)}

\* What an attacker on the wire may insert: a damaged byte, or a client
\* hello (which after the handshake is a renegotiation attempt).
Injections == {<<Wire.garbage>>, HandshakeRecord(Wire.client_hello)}

Call(op, who, input, r) ==
    [op |-> op, who |-> who, input |-> input, res |-> r.res,
     before |-> codec[who], hist_before |-> hist[who], step_res |-> r.step_res,
     input_view |-> r.input_view, output_view |-> r.output_view,
     engine_calls |-> r.engine_calls,
     pending_before |-> r.pending_before, pending_after |-> r.pending_after,
     ssl_error |-> r.ssl_error, out |-> r.out]

Init ==
    /\ codec = [m \in Modes |-> OpenSslCryptoCodecImpl(m)]
    /\ net = [m \in Modes |-> <<>>]
    /\ tosend = [m \in Modes |-> IF m = "Client" THEN Plaintext ELSE <<>>]
    /\ sent = [m \in Modes |-> <<>>]
    /\ rcvd = [m \in Modes |-> <<>>]
    /\ tampered = FALSE
    /\ last = [op |-> "none"]
    /\ hist = [m \in Modes |-> [failed |-> FALSE, done |-> FALSE]]
    /\ sparse_map = SimpleSparseMap(1, 0)
    /\ added = <<>>

\* The caller of m, after handshake(input, ..) returned r: it keeps what was
\* not consumed and ships what was produced.
HandshakeReturns(m, input, r) ==
    /\ codec' = [codec EXCEPT ![m] = r.c]
    /\ net' = [net EXCEPT ![m] = Drop(@, r.res.bytes_consumed),
                          ![Peer(m)] = @ \o Take(r.out, r.res.bytes_produced)]
    /\ last' = Call("handshake", m, input, r)
    /\ hist' = [hist EXCEPT ![m].failed = @ \/ r.res.state = "Failed",
                            ![m].done = @ \/ r.res.state = "Done"]
    /\ UNCHANGED <<tosend, sent, rcvd, tampered, sparse_map, added>>

\* The caller of m hands the first n waiting wire bytes to handshake().
Handshake(m, n) ==
    \E r \in {handshake(codec[m], Take(net[m], n), min_encode_buffer_size)} :
        HandshakeReturns(m, Take(net[m], n), r)

\* The caller of m, after encode(input, ..) returned r.
EncodeReturns(m, input, r) ==
    /\ codec' = [codec EXCEPT ![m] = r.c]
    /\ net' = [net EXCEPT ![Peer(m)] = @ \o Take(r.out, r.res.bytes_produced)]
    /\ tosend' = [tosend EXCEPT ![m] = Drop(@, r.res.bytes_consumed)]
    /\ sent' = [sent EXCEPT ![m] = @ \o Take(input, r.res.bytes_consumed)]
    /\ last' = Call("encode", m, input, r)
    /\ UNCHANGED <<rcvd, tampered, hist, sparse_map, added>>

\* The caller of m passes the first k bytes of its unsent plaintext.
Encode(m, k) ==
    \E r \in {encode(codec[m], Take(tosend[m], k), min_encode_buffer_size)} :
        EncodeReturns(m, Take(tosend[m], k), r)

\* The caller of m, after decode(input, ..) returned r.
DecodeReturns(m, input, r) ==
    /\ codec' = [codec EXCEPT ![m] = r.c]
    /\ net' = [net EXCEPT ![m] = Drop(@, r.res.bytes_consumed)]
    /\ rcvd' = [rcvd EXCEPT ![m] = @ \o Take(r.out, r.res.bytes_produced)]
    /\ last' = Call("decode", m, input, r)
    /\ UNCHANGED <<tosend, sent, tampered, hist, sparse_map, added>>

\* The caller of m hands the first n waiting wire bytes to decode().
Decode(m, n) ==
    \E r \in {decode(codec[m], Take(net[m], n), min_decode_buffer_size)} :
        DecodeReturns(m, Take(net[m], n), r)

\* Somebody on the wire adds bytes to the stream towards m, once.
Tamper(m, x) ==
    /\ ~tampered
    /\ tampered' = TRUE
    /\ net' = [net EXCEPT ![m] = @ \o x]
    /\ last' = [op |-> "tamper"]
    /\ UNCHANGED <<codec, tosend, sent, rcvd, hist, sparse_map, added>>

Next ==
    \/ \E m \in Modes : \E n \in PeerSpans(net[m]) : Handshake(m, n)
    \/ \E m \in Modes : \E k \in EncodeSpans(tosend[m]) : Encode(m, k)
    \/ \E m \in Modes : \E n \in PeerSpans(net[m]) : Decode(m, n)
    \/ \E m \in Modes : \E x \in Injections : Tamper(m, x)

Spec == Init /\ [][Next]_vars

\* ------------------------------------------------------------------------
\* Properties
\* ------------------------------------------------------------------------

\* The handshake state of a codec is Done when its engine reports the
\* handshake finished.
HandshakeIsDone(c) == c.ssl.state = "ok" /\ ~c.ssl.error

NoView(call) == ~call.input_view.set /\ ~call.output_view.set

\* C1: while the handshake is not Done, encode() and decode() return Failed
\* with nothing consumed and nothing produced, attach no buffer view, invoke
\* no engine primitive and leave the codec and the caller's buffers alone.
NoPrematureCrypto ==
    (last.op \in {"encode", "decode"} /\ ~HandshakeIsDone(last.before)) =>
        /\ last.res.bytes_consumed = 0
        /\ last.res.bytes_produced = 0
        /\ (last.op = "encode" => last.res.failed)
        /\ (last.op = "decode" => last.res.state = "Failed")
        /\ NoView(last)
        /\ last.engine_calls = 0
        /\ last.out = <<>>
        /\ codec[last.who] = last.before

\* An encode of a non-empty plaintext on a codec whose handshake has failed.
NoPrematureCryptoWitness ==
    /\ last.op = "encode"
    /\ hist[last.who].failed
    /\ ~HandshakeIsDone(last.before)
    /\ Len(last.input) > 0

\* C2: on a codec whose handshake is Done, handshake() returns {0, 0, Done},
\* attaches no view, does not invoke the engine and changes nothing.
IdempotentDone ==
    (last.op = "handshake" /\ HandshakeIsDone(last.before)) =>
        /\ last.res = [bytes_consumed |-> 0, bytes_produced |-> 0, state |-> "Done"]
        /\ NoView(last)
        /\ last.engine_calls = 0
        /\ last.out = <<>>
        /\ codec[last.who] = last.before

\* A handshake call on a Done codec that was handed wire bytes.
IdempotentDoneWitness ==
    /\ last.op = "handshake"
    /\ HandshakeIsDone(last.before)
    /\ Len(last.input) > 0

\* C3: between calls both slots of every codec alias the empty region.
BufferIsolation ==
    \A m \in Modes :
        /\ codec[m].input_bio = [buf |-> <<>>, pos |-> 0, set |-> FALSE]
        /\ codec[m].output_bio = [size |-> 0, data |-> <<>>, set |-> FALSE]

\* A decode that failed after the engine had read from the attached view.
BufferIsolationWitness ==
    /\ last.op = "decode"
    /\ last.res.state = "Failed"
    /\ last.input_view.set
    /\ last.res.bytes_consumed > 0

\* C4 as stated: a handshake call that returns NeedsMorePeerData has
\* produced no bytes.
HandshakeNeedsMoreProducesNothing ==
    (last.op = "handshake" /\ last.res.state = "NeedsMorePeerData") =>
        last.res.bytes_produced = 0

\* C4 amended: the result of the consume step carries no produced bytes; the
\* handshake call that returns NeedsMorePeerData reports the bytes pending in
\* the output view, which the caller finds in its output buffer.
HandshakeNeedsMoreReportsPending ==
    (last.op = "handshake" /\ last.engine_calls = 1) =>
        /\ last.step_res.bytes_produced = 0
        /\ (last.res.state = "NeedsMorePeerData" =>
                last.res.bytes_produced = Len(last.out))

\* A handshake call that wants more peer data and has queued output.
HandshakeNeedsMoreReportsPendingWitness ==
    /\ last.op = "handshake"
    /\ last.res.state = "NeedsMorePeerData"
    /\ last.res.bytes_produced > 0

\* The first record of a wire stream, when the stream holds all of it.
HasFullRecord(w) == Len(w) >= Wire.header_len /\ Len(w) >= Wire.header_len + w[2]

FirstRecord(w) == Take(w, Wire.header_len + w[2])

\* The plaintext carried by the application records of an intact stream.
RECURSIVE PlaintextIn(_)
PlaintextIn(w) ==
    IF ~HasFullRecord(w) THEN <<>>
    ELSE (IF w[1] = Wire.application
          THEN [i \in 1..w[2] |-> w[Wire.header_len + i] - Wire.key]
          ELSE <<>>)
         \o PlaintextIn(Drop(w, Wire.header_len + w[2]))

\* The wire bytes the engine of a call had at hand: what it had buffered
\* before the call, then the input of the call.
AtHand(call) == call.before.ssl.rbuf \o call.input

\* C5: with nobody tampering, the plaintext the Client's encode calls have
\* consumed is at every moment the plaintext the Server's decode calls have
\* produced followed by the plaintext still on its way to the Server, so once
\* nothing is on its way the Server has received exactly what was sent.
RoundTrip ==
    ~tampered =>
        sent["Client"] =
            rcvd["Server"] \o PlaintextIn(codec["Server"].ssl.rbuf \o net["Server"])

\* A decode call has just delivered the last byte of a plaintext that took
\* more than one record.
RoundTripWitness ==
    /\ ~tampered
    /\ last.op = "decode"
    /\ last.res.state = "OK"
    /\ rcvd["Server"] = sent["Client"]
    /\ Len(sent["Client"]) > MaximumFramePlaintextSize

\* C6: on an intact wire, a caller that keeps calling encode on what is
\* left of a plaintext longer than a frame gets all of it consumed, and the
\* peer's decode calls deliver all of it.
FrameFragmentation ==
    <>(tosend["Client"] = <<>> /\ rcvd["Server"] = Plaintext)

\* The whole plaintext, longer than a frame, has been consumed and delivered.
FrameFragmentationWitness ==
    /\ ~tampered
    /\ Len(Plaintext) > MaximumFramePlaintextSize
    /\ tosend["Client"] = <<>>
    /\ rcvd["Server"] = Plaintext

\* C7: on an intact stream, a decode on a Done codec that has less than a
\* whole record at hand returns NeedsMorePeerData with nothing produced and
\* no more consumed than it was given; and when a decode returned
\* NeedsMorePeerData, a following decode that has the whole record at hand
\* returns OK with that record's plaintext.
PartialRecord ==
    [][(~tampered' /\ last'.op = "decode" /\ HandshakeIsDone(last'.before)) =>
          /\ ~HasFullRecord(AtHand(last')) =>
                /\ last'.res.state = "NeedsMorePeerData"
                /\ last'.res.bytes_produced = 0
                /\ last'.res.bytes_consumed <= Len(last'.input)
          /\ (/\ last.op = "decode"
              /\ last.who = last'.who
              /\ last.res.state = "NeedsMorePeerData"
              /\ HasFullRecord(AtHand(last'))) =>
                /\ last'.res.state = "OK"
                /\ last'.res.bytes_produced = AtHand(last')[2]
                /\ last'.out = PlaintextIn(FirstRecord(AtHand(last')))]_vars

\* A decode has completed a record whose first bytes an earlier decode had
\* taken in.
PartialRecordWitness ==
    /\ ~tampered
    /\ last.op = "decode"
    /\ last.res.state = "OK"
    /\ last.before.ssl.rbuf # <<>>

\* C8: handshake and decode consume between nothing and the input they were
\* given, and the buffered size of the input view does not grow across the
\* engine step.
MonotonicConsumption ==
    (last.op \in {"handshake", "decode"}) =>
        /\ last.res.bytes_consumed >= 0
        /\ last.res.bytes_consumed <= Len(last.input)
        /\ last.pending_after <= last.pending_before

\* A call that consumed some of its input and left the rest.
MonotonicConsumptionWitness ==
    /\ last.op \in {"handshake", "decode"}
    /\ last.res.bytes_consumed > 0
    /\ last.res.bytes_consumed < Len(last.input)

ResponderNeverDoneFirst ==
    (last.op = "handshake" /\ last.who = "Server") =>
        /\ (last.before = OpenSslCryptoCodecImpl("Server") /\ last.input = <<>>) =>
              last.res = [bytes_consumed |-> 0, bytes_produced |-> 0,
                          state |-> "NeedsMorePeerData"]
        /\ (last.engine_calls = 1 /\ last.res.state = "Done") =>
              last.res.bytes_consumed >= 1

\* The fresh Server has been asked to handshake with nothing from the peer.
ResponderNeverDoneFirstWitness ==
    /\ last.op = "handshake"
    /\ last.who = "Server"
    /\ last.before = OpenSslCryptoCodecImpl("Server")
    /\ last.input = <<>>
    /\ last.engine_calls = 1

\* C14: a handshake call whose engine step reports no error and leaves the
\* engine with the handshake complete returns Done, with bytes_consumed the
\* decrease of the input view's buffered size across the step and
\* bytes_produced the bytes pending in the output view.
HandshakeCompletes ==
    (/\ last.op = "handshake"
     /\ last.engine_calls = 1
     /\ last.ssl_error = "SSL_ERROR_NONE"
     /\ HandshakeIsDone(codec[last.who])) =>
        last.res = [bytes_consumed |-> last.pending_before - last.pending_after,
                    bytes_produced |-> Len(last.out),
                    state |-> "Done"]

\* The call that completes the Client's handshake: it consumes the Server's
\* flight and produces the Client's last message.
HandshakeCompletesWitness ==
    /\ last.op = "handshake"
    /\ last.engine_calls = 1
    /\ last.res.state = "Done"
    /\ last.res.bytes_consumed > 0
    /\ last.res.bytes_produced > 0

\* C16: on a Done codec, encode() of a non-empty plaintext makes one engine
\* write; when it succeeds it has consumed min(n, frame ceiling) bytes, the
\* output holds the record of exactly the first min(n, frame ceiling) bytes
\* of the plaintext, and bytes_produced is the size of that output.  No
\* successful encode consumes more than the frame ceiling.
EncodeClamps ==
    /\ (last.op = "encode" /\ HandshakeIsDone(last.before) /\ last.input # <<>>) =>
          /\ last.engine_calls = 1
          /\ ~last.res.failed =>
                /\ last.res.bytes_consumed =
                       Min(Len(last.input), MaximumFramePlaintextSize)
                /\ last.out =
                       ApplicationRecord(
                           SubSeq(last.input, 1,
                                  Min(Len(last.input), MaximumFramePlaintextSize)))
                /\ last.res.bytes_produced = Len(last.out)
    /\ (last.op = "encode" /\ ~last.res.failed) =>
          last.res.bytes_consumed <= MaximumFramePlaintextSize

\* A successful encode of a plaintext longer than the frame ceiling.
EncodeClampsWitness ==
    /\ last.op = "encode"
    /\ HandshakeIsDone(last.before)
    /\ Len(last.input) > MaximumFramePlaintextSize
    /\ ~last.res.failed
    /\ last.res.bytes_consumed = MaximumFramePlaintextSize

\* C18: on a Done codec, encode() of an empty plaintext makes no engine
\* write and does not fail; it returns bytes_consumed = 0 and bytes_produced
\* = the bytes pending in the output view, and leaves the engine's session
\* state as it was.
EmptyEncodeIsPoll ==
    (last.op = "encode" /\ HandshakeIsDone(last.before) /\ last.input = <<>>) =>
        /\ last.engine_calls = 0
        /\ ~last.res.failed
        /\ last.res.bytes_consumed = 0
        /\ last.res.bytes_produced = Len(last.out)
        /\ codec[last.who].ssl = last.before.ssl

\* An encode of nothing on a Done codec that has already sent plaintext.
EmptyEncodeIsPollWitness ==
    /\ last.op = "encode"
    /\ HandshakeIsDone(last.before)
    /\ last.input = <<>>
    /\ sent[last.who] # <<>>
    /\ ~last.res.failed

\* C20 as stated: during a decode() call on a Done codec both views are
\* attached, the input slot over ciphertext_in and the output slot over
\* plaintext_out.
DecodeAttachesBothViews ==
    (last.op = "decode" /\ HandshakeIsDone(last.before)) =>
        /\ last.input_view.set
        /\ last.input_view.buf = last.input
        /\ last.output_view.set

\* C20: during a decode() call on a Done codec the input slot aliases
\* ciphertext_in and the output slot stays empty; a handshake() call that
\* reaches the engine has both of its buffers attached.
DecodeAttachesInputViewOnly ==
    /\ (last.op = "decode" /\ HandshakeIsDone(last.before)) =>
          /\ last.input_view.set
          /\ last.input_view.buf = last.input
          /\ ~last.output_view.set
          /\ last.output_view = EmptyMutableView
    /\ (last.op = "handshake" /\ ~HandshakeIsDone(last.before)) =>
          /\ last.input_view.set
          /\ last.input_view.buf = last.input
          /\ last.output_view.set

\* A decode on a Done codec that read a record through the input view and
\* handed out its plaintext.
DecodeAttachesInputViewOnlyWitness ==
    /\ last.op = "decode"
    /\ HandshakeIsDone(last.before)
    /\ last.input # <<>>
    /\ last.input_view.set
    /\ ~last.output_view.set
    /\ last.res.state = "OK"
    /\ last.res.bytes_produced > 0

\* C21: encode() attaches only the output view.  In every encode() call the
\* input slot is empty and stays as it was, the engine's buffer of peer
\* ciphertext is not touched, and the buffered size of the input slot is the
\* same before and after the call; a call that reaches the engine has the
\* output view attached.
EncodeAttachesOutputViewOnly ==
    (last.op = "encode") =>
        /\ ~last.input_view.set
        /\ last.input_view = last.before.input_bio
        /\ codec[last.who].input_bio = last.before.input_bio
        /\ codec[last.who].ssl.rbuf = last.before.ssl.rbuf
        /\ last.pending_before = last.pending_after
        /\ HandshakeIsDone(last.before) => last.output_view.set

\* An encode on a Done codec that wrote a record through the output view
\* while the engine held the start of a peer record.
EncodeAttachesOutputViewOnlyWitness ==
    /\ last.op = "encode"
    /\ HandshakeIsDone(last.before)
    /\ last.before.ssl.rbuf # <<>>
    /\ last.output_view.set
    /\ ~last.input_view.set
    /\ last.res.bytes_produced > 0

\* C22: a decode() call on a Done codec makes one engine read and returns
\* no more than one record's plaintext.  On an intact wire, when the bytes
\* at hand hold a complete record the call hands out the plaintext of the
\* first record only and consumes only that record's bytes, however many
\* records follow; the engine keeps nothing of the later bytes, which stay
\* at the head of what the caller presents next.
OneReadPerDecode ==
    (last.op = "decode" /\ HandshakeIsDone(last.before)) =>
        /\ last.engine_calls = 1
        /\ last.res.bytes_produced <= MaximumFramePlaintextSize
        /\ last.res.bytes_produced = Len(last.out)
        /\ (~tampered /\ HasFullRecord(AtHand(last))) =>
              /\ last.res.state = "OK"
              /\ last.out = PlaintextIn(FirstRecord(AtHand(last)))
              /\ last.res.bytes_consumed =
                     Len(FirstRecord(AtHand(last))) - Len(last.before.ssl.rbuf)
              /\ codec[last.who].ssl.rbuf = <<>>
              /\ SubSeq(net[last.who], 1, Len(last.input) - last.res.bytes_consumed) =
                     SubSeq(last.input, last.res.bytes_consumed + 1, Len(last.input))

\* A decode was handed two complete records, delivered the first and left
\* the second with the caller.
OneReadPerDecodeWitness ==
    /\ ~tampered
    /\ last.op = "decode"
    /\ HandshakeIsDone(last.before)
    /\ last.res.state = "OK"
    /\ last.res.bytes_consumed < Len(last.input)
    /\ HasFullRecord(SubSeq(last.input, last.res.bytes_consumed + 1, Len(last.input)))
    /\ HasFullRecord(net[last.who])

\* C24: a decode() result has bytes_produced > 0 exactly when its state is
\* OK, and a decode() refused because the handshake is not complete is
\* Failed with nothing consumed and nothing produced.
DecodeResultShape ==
    (last.op = "decode") =>
        /\ (last.res.bytes_produced > 0) <=> (last.res.state = "OK")
        /\ ~HandshakeIsDone(last.before) =>
              /\ last.res.state = "Failed"
              /\ last.res.bytes_consumed = 0
              /\ last.res.bytes_produced = 0

\* A decode on a Done codec whose engine read failed after taking bytes
\* from the input view: Failed, with those bytes counted as consumed.
DecodeResultShapeWitness ==
    /\ last.op = "decode"
    /\ HandshakeIsDone(last.before)
    /\ last.engine_calls = 1
    /\ last.res.state = "Failed"
    /\ last.res.bytes_consumed > 0
    /\ last.res.bytes_produced = 0

\* ------------------------------------------------------------------------
\* The transport loop driven to the end: each caller keeps handing
\* everything that waits for its codec to handshake and decode, and everything
\* it has left to encode.
\* ------------------------------------------------------------------------
NextDriven ==
    \/ \E m \in Modes : \E n \in PeerSpans(net[m]) : Handshake(m, n)
    \/ \E k \in EncodeSpans(tosend["Client"]) : Encode("Client", k)
    \/ \E n \in PeerSpans(net["Server"]) : Decode("Server", n)

SpecDriven ==
    /\ Init
    /\ [][NextDriven]_vars
    /\ \A m \in Modes : WF_vars(Handshake(m, Len(net[m])))
    /\ WF_vars(Encode("Client", Len(tosend["Client"])))
    /\ WF_vars(Decode("Server", Len(net["Server"])))

\* ------------------------------------------------------------------------
\* The statements of the three operations around the engine, one at a time:
\* the buffer check each call starts with, and the branches taken after an
\* engine primitive, for every outcome the engine can report.
\* ------------------------------------------------------------------------

\* A size_t value, as two limbs: hi * 2^16 + lo.
SizeT(hi, lo) == <<hi, lo>>

SizeLess(a, b) == a[1] < b[1] \/ (a[1] = b[1] /\ a[2] < b[2])

INT32_MAX == SizeT(32767, 65535)

verify_buf(buf, len) ==
    SizeLess(len, INT32_MAX) /\ (len = SizeT(0, 0) \/ buf # "nullptr")

\* The condition of the LOG_ASSERT each operation starts with.
verify_bufs(first, second) ==
    verify_buf(first.buf, first.len) /\ verify_buf(second.buf, second.len)

Operations == {"handshake", "encode", "decode"}

\* Buffer lengths around the limits, and the pointers that come with them.
Lengths ==
    {SizeT(0, 0), SizeT(0, 1), SizeT(32767, 65534), SizeT(32767, 65535),
     SizeT(32768, 0), SizeT(65535, 65535)}

Buffers == [buf : {"nullptr", "valid"}, len : Lengths]

BufferArguments ==
    {[op |-> "arguments", handler |-> h, first |-> a, second |-> b] :
        h \in Operations, a \in Buffers, b \in Buffers}

\* The codes SSL_get_error can report.
SslErrors ==
    {"SSL_ERROR_NONE", "SSL_ERROR_ZERO_RETURN", "SSL_ERROR_WANT_READ",
     "SSL_ERROR_WANT_WRITE", "SSL_ERROR_SYSCALL", "SSL_ERROR_SSL"}

\* A codec of mode m inside handshake(), both views attached.
HandshakeViews(m, from_peer) ==
    [OpenSslCryptoCodecImpl(m) EXCEPT
        !.input_bio = ConstBufferViewGuard(from_peer),
        !.output_bio = MutableBufferViewGuard(min_encode_buffer_size)]

\* The engine after a handshake step that read k bytes and wrote `data`.
AfterHandshakeStep(viewed, k, data, finished) ==
    [viewed EXCEPT !.ssl.state = IF finished THEN "ok"
                                 ELSE IF viewed.ssl.mode = "Client"
                                 THEN "wait_server_flight"
                                 ELSE "wait_client_finished",
                   !.input_bio.pos = k,
                   !.output_bio.data = data]

\* SSL_do_handshake and SSL_get_error have returned: every code, with the
\* handshake finished or not, any part of the input read, and a handshake
\* message written or not.
HandshakeOutcomes ==
    {[op |-> "SSL_do_handshake", who |-> t[1],
      input |-> Take(HandshakeRecord(Wire.client_hello), t[2]),
      viewed |-> HandshakeViews(t[1], Take(HandshakeRecord(Wire.client_hello), t[2])),
      finished |-> t[5],
      step |-> [c |-> AfterHandshakeStep(
                          HandshakeViews(t[1], Take(HandshakeRecord(Wire.client_hello), t[2])),
                          t[3], t[4], t[5]),
                ssl_error |-> t[6]]] :
        t \in {u \in Modes \X (0..Wire.header_len) \X (0..Wire.header_len)
                        \X {<<>>, HandshakeRecord(Wire.server_flight)}
                        \X BOOLEAN \X SslErrors : u[3] <= u[2]}}

\* A codec of mode m whose handshake has completed.
DoneCodec(m) == [OpenSslCryptoCodecImpl(m) EXCEPT !.ssl.state = "ok"]

\* A Done codec inside encode(), the output view attached.
EncodeViews(m) ==
    [DoneCodec(m) EXCEPT !.output_bio = MutableBufferViewGuard(min_encode_buffer_size)]

\* SSL_write has returned ret, leaving `data` in the output view.
AfterWrite(viewed, data, ret) ==
    [c |-> [viewed EXCEPT !.output_bio.data = data], ret |-> ret, calls |-> 1]

\* SSL_write has returned inside encode(): an error, zero, a partial count,
\* the full clamped span or more, with a record written or not.
WriteOutcomes ==
    {[op |-> "SSL_write", who |-> t[1],
      input |-> Take(Plaintext, t[2]),
      to_consume |-> Min(t[2], MaximumFramePlaintextSize),
      viewed |-> EncodeViews(t[1]),
      wr |-> AfterWrite(EncodeViews(t[1]),
                        IF t[4] THEN ApplicationRecord(Take(Plaintext, Max(0, Min(t[3], t[2]))))
                        ELSE <<>>,
                        t[3])] :
        t \in Modes \X (1..(MaximumFramePlaintextSize + 1))
                    \X (-1..(MaximumFramePlaintextSize + 1)) \X BOOLEAN}

\* A Done codec inside decode(), the input view attached.
DecodeViews(m, ciphertext) ==
    [DoneCodec(m) EXCEPT !.input_bio = ConstBufferViewGuard(ciphertext)]

\* SSL_read has returned ret after taking k bytes from the input view, and
\* SSL_get_error reports ssl_error for it.
AfterSslRead(viewed, k, ret, ssl_error) ==
    [c |-> [viewed EXCEPT !.input_bio.pos = k],
     ret |-> ret, ssl_error |-> ssl_error,
     plain |-> Take(Plaintext, Max(0, ret))]

\* The ciphertext handed to decode(): any prefix of a full record.
Ciphertexts ==
    {Take(ApplicationRecord(Take(Plaintext, MaximumFramePlaintextSize)), n) :
        n \in 0..(Wire.header_len + MaximumFramePlaintextSize)}

\* SSL_read has returned inside decode(): a plaintext length, or a failure
\* with any of the codes SSL_get_error reports for one, after the engine
\* took any part of the input.
ReadOutcomes ==
    {[op |-> "SSL_read", who |-> t[1], input |-> t[2],
      viewed |-> DecodeViews(t[1], t[2]),
      taken |-> t[3],
      rd |-> AfterSslRead(DecodeViews(t[1], t[2]), t[3], t[4], t[5])] :
        t \in {u \in Modes \X Ciphertexts \X (0..(Wire.header_len + MaximumFramePlaintextSize))
                        \X (-1..MaximumFramePlaintextSize) \X SslErrors :
                  /\ u[3] <= Len(u[2])
                  /\ (u[5] = "SSL_ERROR_NONE") <=> (u[4] > 0)}}

InitBranches ==
    /\ codec = [m \in Modes |-> OpenSslCryptoCodecImpl(m)]
    /\ net = [m \in Modes |-> <<>>]
    /\ tosend = [m \in Modes |-> <<>>]
    /\ sent = [m \in Modes |-> <<>>]
    /\ rcvd = [m \in Modes |-> <<>>]
    /\ tampered = FALSE
    /\ hist = [m \in Modes |-> [failed |-> FALSE, done |-> FALSE]]
    /\ sparse_map = SimpleSparseMap(1, 0)
    /\ added = <<>>
    /\ last \in BufferArguments \cup HandshakeOutcomes \cup WriteOutcomes
                                  \cup ReadOutcomes

\* The first statement of handshake / encode / decode: the call aborts
\* unless both buffers pass verify_buf.
VerifyBuffers ==
    /\ last.op = "arguments"
    /\ last' = [op |-> "verify_buf", handler |-> last.handler,
                first |-> last.first, second |-> last.second,
                aborted |-> ~verify_bufs(last.first, last.second)]
    /\ UNCHANGED <<codec, net, tosend, sent, rcvd, tampered, hist, sparse_map, added>>

\* handshake() from the return of the engine step to its own return.
HandshakeBranch ==
    /\ last.op = "SSL_do_handshake"
    /\ \E r \in {ReleaseOutput(ReleaseInput(The(
                     {handshake_return(last.viewed, consume_res) :
                         consume_res \in {consume_peer_input_bytes(
                                              BIO_pending_input(last.viewed.input_bio),
                                              last.step)}})))} :
          last' = [op |-> "handshake_result", who |-> last.who, input |-> last.input,
                   engine |-> [ssl_error |-> last.step.ssl_error,
                               finished |-> last.finished],
                   res |-> r.res, step_res |-> r.step_res,
                   pending_before |-> r.pending_before,
                   pending_after |-> r.pending_after,
                   out |-> r.out, after |-> r.c]
    /\ UNCHANGED <<codec, net, tosend, sent, rcvd, tampered, hist, sparse_map, added>>

\* encode() from the return of SSL_write to its own return.
EncodeBranch ==
    /\ last.op = "SSL_write"
    /\ \E r \in {ReleaseOutput(encode_return(last.viewed, last.input,
                                             last.to_consume, last.wr))} :
          last' = [op |-> "encode_result", who |-> last.who, input |-> last.input,
                   to_consume |-> last.to_consume,
                   engine |-> [ret |-> last.wr.ret],
                   res |-> r.res, out |-> r.out, after |-> r.c]
    /\ UNCHANGED <<codec, net, tosend, sent, rcvd, tampered, hist, sparse_map, added>>

\* decode() from the return of SSL_read to its own return.
DecodeBranch ==
    /\ last.op = "SSL_read"
    /\ \E r \in {ReleaseInput(The(
                     {decode_return(last.viewed,
                                    BIO_pending_input(last.viewed.input_bio),
                                    produce_res) :
                         produce_res \in {produce_plaintext(last.rd)}}))} :
          last' = [op |-> "decode_result", who |-> last.who, input |-> last.input,
                   engine |-> [ret |-> last.rd.ret, ssl_error |-> last.rd.ssl_error,
                               taken |-> last.taken],
                   res |-> r.res, out |-> r.out, after |-> r.c]
    /\ UNCHANGED <<codec, net, tosend, sent, rcvd, tampered, hist, sparse_map, added>>

NextBranches ==
    \/ VerifyBuffers
    \/ HandshakeBranch
    \/ EncodeBranch
    \/ DecodeBranch

SpecBranches == InitBranches /\ [][NextBranches]_vars

SizeLessEq(a, b) == SizeLess(a, b) \/ a = b

\* What the contract says of one buffer: the length fits a signed 32-bit
\* integer, and the pointer is non-null unless the length is 0.
FitsContract(b) ==
    SizeLessEq(b.len, INT32_MAX) /\ (b.len = SizeT(0, 0) \/ b.buf # "nullptr")

\* C12 as stated: a call is aborted by the buffer check exactly when one of
\* its buffers has a length that does not fit a signed 32-bit integer
\* (0 <= length <= 2^31 - 1), or a null pointer with a nonzero length.
BufferContractExact ==
    (last.op = "verify_buf") =>
        (last.aborted <=> ~(FitsContract(last.first) /\ FitsContract(last.second)))

\* C17: when the engine write made by encode() reports an error, or accepts
\* any count other than the full clamped span (zero and partial counts
\* included), encode() returns failed with nothing consumed and nothing
\* produced; a successful encode has consumed the whole clamped span.
EncodeAllOrNothing ==
    (last.op = "encode_result") =>
        /\ (last.engine.ret # last.to_consume) =>
              /\ last.res.failed
              /\ last.res.bytes_consumed = 0
              /\ last.res.bytes_produced = 0
        /\ ~last.res.failed => last.res.bytes_consumed = last.to_consume

\* The engine accepted a part of the clamped span, and encode() failed.
EncodeAllOrNothingWitness ==
    /\ last.op = "encode_result"
    /\ last.engine.ret > 0
    /\ last.engine.ret < last.to_consume
    /\ last.res.failed

\* C19: decode() maps the outcome of the engine read to its result: a
\* positive plaintext length L gives OK with bytes_produced = L, want-read
\* gives NeedsMorePeerData with bytes_produced = 0, and every other outcome
\* gives Failed with bytes_produced = 0; in all three cases bytes_consumed
\* is the number of bytes the read took from the input view.
DecodeOutcomeMapping ==
    (last.op = "decode_result") =>
        /\ (last.engine.ret > 0) =>
              /\ last.res.state = "OK"
              /\ last.res.bytes_produced = last.engine.ret
        /\ (last.engine.ret <= 0 /\ last.engine.ssl_error = "SSL_ERROR_WANT_READ") =>
              /\ last.res.state = "NeedsMorePeerData"
              /\ last.res.bytes_produced = 0
        /\ (last.engine.ret <= 0 /\ last.engine.ssl_error # "SSL_ERROR_WANT_READ") =>
              /\ last.res.state = "Failed"
              /\ last.res.bytes_produced = 0
        /\ last.res.bytes_consumed = last.engine.taken

\* The engine read failed after taking bytes from the input view, and
\* decode() returned Failed with those bytes consumed.
DecodeOutcomeMappingWitness ==
    /\ last.op = "decode_result"
    /\ last.engine.ret <= 0
    /\ last.engine.ssl_error = "SSL_ERROR_SSL"
    /\ last.engine.taken > 0
    /\ last.res.state = "Failed"
    /\ last.res.bytes_consumed = last.engine.taken

\* C23: a handshake() result with state Failed and an encode() result with
\* failed set carry bytes_consumed = 0 and bytes_produced = 0, whatever the
\* failed engine step took from the input view or left in the output view.
FailedReportsNothing ==
    /\ (last.op \in {"handshake_result", "handshake"} /\ last.res.state = "Failed") =>
          /\ last.res.bytes_consumed = 0
          /\ last.res.bytes_produced = 0
    /\ (last.op \in {"encode_result", "encode"} /\ last.res.failed) =>
          /\ last.res.bytes_consumed = 0
          /\ last.res.bytes_produced = 0

\* A handshake step that failed after the engine had taken bytes from the
\* input view and written a message to the output view.
FailedReportsNothingWitness ==
    /\ last.op = "handshake_result"
    /\ last.res.state = "Failed"
    /\ last.pending_after < last.pending_before
    /\ last.out # <<>>
    /\ last.res.bytes_consumed = 0
    /\ last.res.bytes_produced = 0

\* C15: handshake() returns NeedsMorePeerData exactly when the engine step
\* reports want-read, Done exactly when it reports no error and the engine
\* has the handshake complete, and Failed in every other case: no error
\* without completion, and every other error code.
HandshakeOutcomeMapping ==
    (last.op = "handshake_result") =>
        /\ last.res.state = "NeedsMorePeerData" <=>
              last.engine.ssl_error = "SSL_ERROR_WANT_READ"
        /\ last.res.state = "Done" <=>
              (last.engine.ssl_error = "SSL_ERROR_NONE" /\ last.engine.finished)
        /\ last.res.state = "Failed" <=>
              \/ last.engine.ssl_error = "SSL_ERROR_NONE" /\ ~last.engine.finished
              \/ last.engine.ssl_error \notin {"SSL_ERROR_NONE", "SSL_ERROR_WANT_READ"}

\* The engine step reported no error with the handshake not complete, and
\* handshake() returned Failed.
HandshakeOutcomeMappingWitness ==
    /\ last.op = "handshake_result"
    /\ last.engine.ssl_error = "SSL_ERROR_NONE"
    /\ ~last.engine.finished
    /\ last.res.state = "Failed"

\* ------------------------------------------------------------------------
\* A SimpleSparseMap filled by add_mapping calls
\* ------------------------------------------------------------------------
Addresses(num_dims) == [1..num_dims -> Labels]

\* Every address of each number of dimensions, with its hash.
HashedAddresses ==
    [n \in 1..MaxDims |-> {[addr |-> a, hash |-> hash_addr(a)] : a \in Addresses(n)}]

InitMap ==
    /\ codec = [m \in Modes |-> OpenSslCryptoCodecImpl(m)]
    /\ net = [m \in Modes |-> <<>>]
    /\ tosend = [m \in Modes |-> <<>>]
    /\ sent = [m \in Modes |-> <<>>]
    /\ rcvd = [m \in Modes |-> <<>>]
    /\ tampered = FALSE
    /\ last = [op |-> "none"]
    /\ hist = [m \in Modes |-> [failed |-> FALSE, done |-> FALSE]]
    /\ \E num_dims \in 1..MaxDims : sparse_map = SimpleSparseMap(num_dims, 0)
    /\ added = <<>>

\* add_mapping(addr) of an address that is not in the map.
AddMapping(addr) ==
    /\ Len(sparse_map.labels) + sparse_map.num_dims <= MaxStoredLabels
    /\ lookup(sparse_map, addr) = npos
    /\ sparse_map' = add_mapping(sparse_map, addr)
    /\ added' = Append(added, addr)
    /\ last' = [op |-> "add_mapping", addr |-> addr]
    /\ UNCHANGED <<codec, net, tosend, sent, rcvd, tampered, hist>>

\* add_mapping(addr, hash) of an address that is not in the map, with the
\* hash of the address.
AddMappingWithHash(addr) ==
    /\ Len(sparse_map.labels) + sparse_map.num_dims <= MaxStoredLabels
    /\ lookup(sparse_map, addr) = npos
    /\ sparse_map' = add_mapping_with_hash(sparse_map, addr, hash_addr(addr))
    /\ added' = Append(added, addr)
    /\ last' = [op |-> "add_mapping", addr |-> addr, hash |-> hash_addr(addr)]
    /\ UNCHANGED <<codec, net, tosend, sent, rcvd, tampered, hist>>

NextMap ==
    \/ \E addr \in Addresses(sparse_map.num_dims) : AddMapping(addr)
    \/ \E addr \in Addresses(sparse_map.num_dims) : AddMappingWithHash(addr)

SpecMap == InitMap /\ [][NextMap]_vars

WasAdded(addr) == \E k \in 1..Len(added) : added[k] = addr

\* The part of C13 that holds of every map: n mappings, the k-th address
\* bound to k - 1, and num_dims labels stored per mapping.
MappingsInOrder ==
    /\ size(sparse_map) = Len(added)
    /\ \A k \in 1..Len(added) : lookup(sparse_map, added[k]) = k - 1
    /\ Len(sparse_map.labels) = Len(added) * sparse_map.num_dims

\* C13 as stated: after n add_mapping calls with pairwise distinct addresses
\* on an empty map, size() = n, the k-th added address is bound to k - 1,
\* n * num_dims labels are stored, and lookup of an address that was never
\* added returns npos.
SparseMapLookup ==
    /\ MappingsInOrder
    /\ \A addr \in Addresses(sparse_map.num_dims) :
          ~WasAdded(addr) => lookup(sparse_map, addr) = npos

\* C13 amended: lookup returns npos exactly for the addresses whose hash is
\* the hash of no added address; an address that was never added gets the
\* value of the added address it shares its hash with.
SparseMapLookupByHash ==
    /\ MappingsInOrder
    /\ \E hashes \in {[k \in 1..Len(added) |-> hash_addr(added[k])]} :
          \A a \in HashedAddresses[sparse_map.num_dims] :
              \E found \in {lookup(sparse_map, a.addr)} :
                  IF \E k \in 1..Len(added) : hashes[k] = a.hash
                  THEN \E k \in 1..Len(added) : hashes[k] = a.hash /\ found = k - 1
                  ELSE found = npos

\* Several mappings were added; some address that was never added is not
\* found, and another one is found under the value of an added address.
SparseMapLookupByHashWitness ==
    /\ Len(added) >= 2
    /\ size(sparse_map) = Len(added)
    /\ \E addr \in Addresses(sparse_map.num_dims) :
          ~WasAdded(addr) /\ lookup(sparse_map, addr) # npos
    /\ \E addr \in Addresses(sparse_map.num_dims) :
          ~WasAdded(addr) /\ lookup(sparse_map, addr) = npos

====
